---------------------------- MODULE Spec2Model ----------------------------
(***************************************************************************)
(* Model of the logwrite consumer (wire codec, rotated log files and the   *)
(* consumer loop).  Strings are sequences of one-character strings, files  *)
(* are inodes reached through directory entries, and an open *os.File is   *)
(* an inode number with a write offset.  Further specifications model the *)
(* log sinks of init: GetLog, the fileLog and the remoteLog.               *)
(***************************************************************************)
EXTENDS Integers, Sequences, FiniteSets, TLC

VARIABLES
    pc,            \* position of main: connect, cmd, read, write, check, done, fatal
    maxLogFiles,   \* flag -max-log-files
    maxLogSize,    \* flag -max-log-size
    sockOut,       \* bytes main has written to the query socket
    received,      \* lines (indices into Lines) read from the socket so far
    cur,           \* the message main is appending (msg of the loop), or Nil
    logs,          \* map of service name to active LogFile
    dir,           \* the log directory: path -> inode number
    inodes,        \* inode number -> file content
    faults,        \* I/O failures the environment has produced so far
    last,          \* what the last step of main did (history)
    rotations,     \* service name -> successful Rotate calls (history)
    rotFailed,     \* service names one of whose Rotate calls failed (history)
    appended,      \* service name -> bytes put in the file behind the handle (history)
    firstGen,      \* service name -> the file its first Rotate moved away (history)
    truncs,        \* inode number -> times the file was emptied by O_TRUNC (history)
    written,       \* lines (indices into Lines) whose message Write has appended (history)
    cvia,          \* codec harness: how cline was made: given, String, wire
    cstage,        \* codec harness: msg, line, parsed
    cmsg,          \* codec harness: the LogMessage given, or Nil
    cline,         \* codec harness: the line handed to ParseLogMessage
    cres,          \* codec harness: what ParseLogMessage returned
    ctlPath,       \* init: whether /var/run/external-logging.sock exists: present, absent
    sinks,         \* init: the Log values GetLog has returned to the process, in order
    stats,         \* init: what os.Stat met and returned in each GetLog call (history)
    logDir,        \* init: the directory of the fileLog: path -> inode number
    logInodes,     \* init: inode number -> content of the files of logDir
    held,          \* init: the *os.File values Open has returned to its callers
    ret,           \* init: what the last call on a sink returned (history)
    ncalls,        \* init: calls of Path, Open and DumpAll made so far
    fifos,         \* init: the FIFOs of /var/run: path -> whether a writer has opened it
    tasks,         \* init: the goroutines remoteLog.Path has started, in order
    ctlSent,       \* init: the datagrams delivered to the control socket, in order
    openFds,       \* init: the FIFO and socket-pair descriptors the process holds open
    exited,        \* init: the process has ended in log.Fatal
    sfaults,       \* init: I/O failures the environment has produced so far
    dumpPc,        \* init: position of remoteLog.DumpAll: idle, write, copy, returned
    queryOut,      \* init: bytes DumpAll has written to the query socket
    stdout         \* init: bytes DumpAll has copied to standard output

vars == <<pc, maxLogFiles, maxLogSize, sockOut, received, cur, logs, dir, inodes,
          faults, last, rotations, rotFailed, appended, firstGen, truncs, written,
          cvia, cstage, cmsg, cline, cres,
          ctlPath, sinks, stats, logDir, logInodes, held, ret, ncalls,
          fifos, tasks, ctlSent, openFds, exited, sfaults, dumpPc, queryOut, stdout>>

consumerVars == <<pc, maxLogFiles, maxLogSize, sockOut, received, cur, logs, dir,
                  inodes, faults, last, rotations, rotFailed, appended, firstGen, truncs,
                  written>>

codecVars == <<cvia, cstage, cmsg, cline, cres>>

remoteVars == <<fifos, tasks, ctlSent, openFds, exited, sfaults, dumpPc, queryOut, stdout>>

sinkVars == <<ctlPath, sinks, stats, logDir, logInodes, held, ret, ncalls, remoteVars>>

Nil == [nil |-> TRUE]

-----------------------------------------------------------------------------
(* Bounds of the model.                                                     *)

\* lines the daemon sends before the stream ends
MaxLines == 3
\* I/O failures the environment produces in one run
MaxFaults == 1
\* tokens concatenated into a line handed to ParseLogMessage
MaxTokens == 3
\* calls of GetLog one process makes
MaxSinks == 2
\* calls of Path, Open and DumpAll one process makes
MaxCalls == 3
\* bytes a service writes to its log file
MaxOutput == 1

-----------------------------------------------------------------------------
(* Strings.                                                                 *)

Digits == <<"0", "1", "2", "3", "4", "5", "6", "7", "8", "9">>

IsDigit(c) == \E i \in 1..10 : Digits[i] = c

DigitVal(c) == (CHOOSE i \in 1..10 : Digits[i] = c) - 1

\* the decimal value of a string of digits
RECURSIVE Atoi(_)
Atoi(s) == IF s = <<>> THEN 0
           ELSE 10 * Atoi(SubSeq(s, 1, Len(s) - 1)) + DigitVal(s[Len(s)])

AllDigits(s) == \A i \in 1..Len(s) : IsDigit(s[i])

\* fmt's %d of a non-negative integer
RECURSIVE Itoa(_)
Itoa(n) == IF n < 10 THEN <<Digits[n + 1]>>
           ELSE Itoa(n \div 10) \o <<Digits[(n % 10) + 1]>>

\* fmt's %d
SprintD(n) == IF n < 0 THEN <<"-">> \o Itoa(0 - n) ELSE Itoa(n)

\* n in decimal, zero-padded to w digits
RECURSIVE Pad(_, _)
Pad(n, w) == IF w = 0 THEN <<>> ELSE Pad(n \div 10, w - 1) \o <<Digits[(n % 10) + 1]>>

\* strings.Index for a one-character separator: 0 when absent
Index(s, c) == IF \E i \in 1..Len(s) : s[i] = c
               THEN CHOOSE i \in 1..Len(s) : s[i] = c /\ \A j \in 1..(i - 1) : s[j] # c
               ELSE 0

\* strings.SplitN(s, sep, 2)
SplitN2(s, sep) ==
    LET i == Index(s, sep)
    IN  IF i = 0 THEN <<s>>
        ELSE <<SubSeq(s, 1, i - 1), SubSeq(s, i + 1, Len(s))>>

\* strings.Split(s, sep)
RECURSIVE Split(_, _)
Split(s, sep) ==
    LET i == Index(s, sep)
    IN  IF i = 0 THEN <<s>>
        ELSE <<SubSeq(s, 1, i - 1)>> \o Split(SubSeq(s, i + 1, Len(s)), sep)

\* strings.HasPrefix
HasPrefix(s, p) == Len(s) >= Len(p) /\ SubSeq(s, 1, Len(p)) = p

RECURSIVE Concat(_)
Concat(ss) == IF ss = <<>> THEN <<>> ELSE Head(ss) \o Concat(Tail(ss))

-----------------------------------------------------------------------------
(* time.Time, time.RFC3339 ("2006-01-02T15:04:05Z07:00").                   *)

\* a time.Time: wall-clock fields, nanoseconds, zone offset in minutes
Time(y, mo, d, h, mi, s, ns, off) ==
    [year |-> y, month |-> mo, day |-> d, hour |-> h, min |-> mi, sec |-> s,
     nsec |-> ns, off |-> off]

IsLeap(y) == (y % 4 = 0 /\ y % 100 # 0) \/ y % 400 = 0

DaysIn(mo, y) == IF mo = 2 THEN (IF IsLeap(y) THEN 29 ELSE 28)
                 ELSE IF mo \in {4, 6, 9, 11} THEN 30 ELSE 31

\* the zone of the layout element Z07:00
FormatZone(off) ==
    IF off = 0 THEN <<"Z">>
    ELSE LET a == IF off < 0 THEN 0 - off ELSE off
         IN  <<(IF off < 0 THEN "-" ELSE "+")>> \o Pad(a \div 60, 2) \o <<":">> \o Pad(a % 60, 2)

\* t.Format(time.RFC3339): whole seconds only, the layout has no fraction
TimeFormat(t) ==
    Pad(t.year, 4) \o <<"-">> \o Pad(t.month, 2) \o <<"-">> \o Pad(t.day, 2) \o <<"T">>
    \o Pad(t.hour, 2) \o <<":">> \o Pad(t.min, 2) \o <<":">> \o Pad(t.sec, 2)
    \o FormatZone(t.off)

RECURSIVE Pow10(_)
Pow10(n) == IF n = 0 THEN 1 ELSE 10 * Pow10(n - 1)

\* the digits that open s
RECURSIVE LeadingDigits(_)
LeadingDigits(s) == IF s # <<>> /\ IsDigit(Head(s)) THEN <<Head(s)>> \o LeadingDigits(Tail(s))
                    ELSE <<>>

\* the fractional second a parse accepts after the seconds: ".ddd", at most 9 digits kept
FracDigits(rest) == IF Len(rest) >= 2 /\ rest[1] = "." THEN LeadingDigits(Tail(rest)) ELSE <<>>

FracNsec(ds) == IF ds = <<>> THEN 0
                ELSE LET k == SubSeq(ds, 1, IF Len(ds) > 9 THEN 9 ELSE Len(ds))
                     IN  Atoi(k) * Pow10(9 - Len(k))

\* the zone text of a timestamp: "Z", or a sign, two digits, ":" and two digits
ZoneOk(z) ==
    \/ z = <<"Z">>
    \/ /\ Len(z) = 6
       /\ z[1] \in {"+", "-"}
       /\ AllDigits(SubSeq(z, 2, 3)) /\ z[4] = ":" /\ AllDigits(SubSeq(z, 5, 6))
       /\ Atoi(SubSeq(z, 2, 3)) <= 23 /\ Atoi(SubSeq(z, 5, 6)) <= 59

ZoneOff(z) ==
    IF z = <<"Z">> THEN 0
    ELSE LET m == Atoi(SubSeq(z, 2, 3)) * 60 + Atoi(SubSeq(z, 5, 6))
         IN  IF z[1] = "-" THEN 0 - m ELSE m

\* the text after the seconds: an optional fraction, then the zone
AfterSeconds(s) == SubSeq(s, 20, Len(s))

ZoneText(s) ==
    LET rest == AfterSeconds(s)
        fd   == FracDigits(rest)
    IN  IF fd = <<>> THEN rest ELSE SubSeq(rest, Len(fd) + 2, Len(rest))

\* a month check that lets 0 and 13 through
MonthOkLoose(mo) == mo \in 0..13

\* the month range time.Parse enforces
MonthOk(mo) == mo \in 1..12

\* whether s has the shape and the field ranges time.Parse(time.RFC3339, s) accepts
TimeParseOk(s) ==
    /\ Len(s) >= 20
    /\ AllDigits(SubSeq(s, 1, 4)) /\ s[5] = "-"
    /\ AllDigits(SubSeq(s, 6, 7)) /\ s[8] = "-"
    /\ AllDigits(SubSeq(s, 9, 10)) /\ s[11] = "T"
    /\ AllDigits(SubSeq(s, 12, 13)) /\ s[14] = ":"
    /\ AllDigits(SubSeq(s, 15, 16)) /\ s[17] = ":"
    /\ AllDigits(SubSeq(s, 18, 19))
    /\ MonthOk(Atoi(SubSeq(s, 6, 7)))
    /\ Atoi(SubSeq(s, 9, 10)) \in 1..DaysIn(Atoi(SubSeq(s, 6, 7)), Atoi(SubSeq(s, 1, 4)))
    /\ Atoi(SubSeq(s, 12, 13)) <= 23
    /\ Atoi(SubSeq(s, 15, 16)) <= 59
    /\ Atoi(SubSeq(s, 18, 19)) <= 59
    /\ ZoneOk(ZoneText(s))

\* time.Parse(time.RFC3339, s): the time and a nil error, or an error
TimeParse(s) ==
    IF TimeParseOk(s)
    THEN [err |-> FALSE,
          t   |-> Time(Atoi(SubSeq(s, 1, 4)), Atoi(SubSeq(s, 6, 7)), Atoi(SubSeq(s, 9, 10)),
                       Atoi(SubSeq(s, 12, 13)), Atoi(SubSeq(s, 15, 16)),
                       Atoi(SubSeq(s, 18, 19)), FracNsec(FracDigits(AfterSeconds(s))),
                       ZoneOff(ZoneText(s)))]
    ELSE [err |-> TRUE, t |-> Nil]

-----------------------------------------------------------------------------
(* LogMessage and its two text forms.                                       *)

LogMessage(t, name, message) == [Time |-> t, Name |-> name, Message |-> message]

\* the separators of the wire line
StringSepWire(k) == IF k = 1 THEN <<",">> ELSE <<";">>

\* the separator LogMessage.String puts after field k
StringSep(k) == <<" ">>

\* func (m *LogMessage) String() string
String(m) == TimeFormat(m.Time) \o StringSep(1) \o m.Name \o StringSep(2) \o m.Message

\* the message among the two parts of the line: all that follows the first ";"
MessageOfBits(bits) == bits[2]

\* the name taken from the last header field
NameOfBits2Last(bits2) == bits2[Len(bits2)]

\* the name among the header fields: field 1
NameOfBits2(bits2) == bits2[2]

\* the header needs a timestamp and a service name
HeaderTooShort(bits2) == Len(bits2) < 2

\* func ParseLogMessage(line string) (*LogMessage, error)
ParseLogMessage(line) ==
    LET bits  == SplitN2(line, ";")
        bits2 == Split(bits[1], ",")
        tm    == TimeParse(bits2[1])
    IN  IF Len(bits) # 2 THEN [msg |-> Nil, err |-> "Failed to parse log message"]
        ELSE IF HeaderTooShort(bits2) THEN [msg |-> Nil, err |-> "Failed to parse log message"]
        ELSE IF tm.err THEN [msg |-> Nil, err |-> "time.Parse"]
        ELSE [msg |-> LogMessage(tm.t, NameOfBits2(bits2), MessageOfBits(bits)), err |-> "nil"]

\* the line memlogd sends for a message: <timestamp>,<origin>;<body>
WireLine(m) == TimeFormat(m.Time) \o <<",">> \o m.Name \o <<";">> \o m.Message

-----------------------------------------------------------------------------
(* Files: directory entries, inodes and open handles.                       *)

\* filepath.Join(l.Dir, l.Name), relative to the log directory
PathOf(name) == name

\* the byte a hole in a file reads as
NUL == "\\0"

RECURSIVE Zeros(_)
Zeros(n) == IF n <= 0 THEN <<>> ELSE <<NUL>> \o Zeros(n - 1)

\* the content of a file after data is written at offset off
WriteAt(content, off, data) ==
    SubSeq(content, 1, off) \o Zeros(off - Len(content)) \o data
    \o SubSeq(content, off + Len(data) + 1, Len(content))

\* an open *os.File: the inode behind it, the write offset, whether Close was called
Handle(i, o, c) == [ino |-> i, off |-> o, closed |-> c]

\* a create that opens an existing file for appending
OsCreateAppend(d, ino, path, fail) ==
    IF fail \/ path = <<>>
    THEN [err |-> TRUE, dir |-> d, inodes |-> ino, File |-> [nil |-> TRUE]]
    ELSE IF path \in DOMAIN d
    THEN [err |-> FALSE, dir |-> d, inodes |-> ino,
          File |-> [ino |-> d[path], off |-> Len(ino[d[path]]), closed |-> FALSE]]
    ELSE [err |-> FALSE, dir |-> d @@ (path :> (Len(ino) + 1)), inodes |-> Append(ino, <<>>),
          File |-> [ino |-> Len(ino) + 1, off |-> 0, closed |-> FALSE]]

\* os.Create(path): O_RDWR|O_CREATE|O_TRUNC.  An existing file keeps its inode and is
\* emptied; the directory itself (the empty name) cannot be opened for writing.
OsCreate(d, ino, path, fail) ==
    IF fail \/ path = <<>>
    THEN [err |-> TRUE, dir |-> d, inodes |-> ino, File |-> Nil]
    ELSE IF path \in DOMAIN d
    THEN [err |-> FALSE, dir |-> d, inodes |-> [ino EXCEPT ![d[path]] = <<>>],
          File |-> Handle(d[path], 0, FALSE)]
    ELSE [err |-> FALSE, dir |-> d @@ (path :> (Len(ino) + 1)), inodes |-> Append(ino, <<>>),
          File |-> Handle(Len(ino) + 1, 0, FALSE)]

\* a rename that leaves the old name in place (a hard link)
OsRenameKeep(d, newer, older) ==
    [p \in DOMAIN d \cup {older} |-> IF p = older THEN d[newer] ELSE d[p]]

\* os.Rename(newer, older) of an existing newer: older now names newer's inode
OsRename(d, newer, older) ==
    [p \in (DOMAIN d \ {newer}) \cup {older} |-> IF p = older THEN d[newer] ELSE d[p]]

\* type LogFile struct (Dir is the one log directory of the process)
LogFile(f, name, n) == [File |-> f, Name |-> name, BytesWritten |-> n]

\* func NewLogFile(dir, name string) (*LogFile, error)
NewLogFile(d, ino, name, fail) ==
    LET c == OsCreate(d, ino, PathOf(name), fail)
    IN  IF c.err THEN [err |-> TRUE, dir |-> d, inodes |-> ino, l |-> Nil]
        ELSE [err |-> FALSE, dir |-> c.dir, inodes |-> c.inodes, l |-> LogFile(c.File, name, 0)]

\* the counter after a write of n bytes that returned no error
CountNoAdd(bytesWritten, n) == bytesWritten

CountAfterWrite(bytesWritten, n) == bytesWritten + n

\* the text Write puts in the file for a message
WrittenTextWire(m) == WireLine(m) \o <<"\n">>

WrittenText(m) == String(m)

\* func (l *LogFile) Write(m *LogMessage) error.  short is the number of bytes a failing
\* write still put in the file (-1: the write does not fail).
Write(l, ino, m, short) ==
    LET s == WrittenText(m)
        n == IF short >= 0 THEN short ELSE Len(s)
    IN  IF l.File.closed
        THEN [err |-> TRUE, n |-> 0, l |-> l, inodes |-> ino]
        ELSE [err    |-> short >= 0,
              n      |-> n,
              l      |-> [l EXCEPT !.File.off = @ + n,
                                   !.BytesWritten = IF short >= 0 THEN @
                                                    ELSE CountAfterWrite(@, Len(s))],
              inodes |-> [ino EXCEPT ![l.File.ino] = WriteAt(@, l.File.off, SubSeq(s, 1, n))]]

\* numbering that starts at foo.1
SiblingFromOne(path, i) == path \o <<".">> \o SprintD(i + 1)

\* the name Rotate gives the file of index i: foo.0, foo.1, ...
Sibling(path, i) == path \o <<".">> \o SprintD(i)

\* the first index of the rename loop
LoopStartOneLess(maxFiles) == maxFiles - 2

LoopStart(maxFiles) == maxFiles - 1

LoopContinuesAboveZero(i) == i > 0

\* the condition of the rename loop of Rotate: it runs down to index 0
LoopContinues(i) == i >= 0

RenameFailsIgnored(failAt, i) == FALSE

\* os.Rename at index i returns an error that is not "does not exist": Rotate returns it
RenameFails(failAt, i) == failAt = i

\* the renames of Rotate done from index j up to index top
RECURSIVE RenameUp(_, _, _, _, _)
RenameUp(d, path, j, top, failAt) ==
    IF j > top THEN [err |-> FALSE, dir |-> d]
    ELSE LET newerFile == IF j = 0 THEN path ELSE Sibling(path, j - 1)
             olderFile == Sibling(path, j)
         IN  IF failAt = j THEN [err |-> TRUE, dir |-> d]
             ELSE IF newerFile \notin DOMAIN d THEN RenameUp(d, path, j + 1, top, failAt)
             ELSE RenameUp(OsRename(d, newerFile, olderFile), path, j + 1, top, failAt)

RenameChainAscending(d, path, i, failAt) == RenameUp(d, path, 0, i, failAt)

\* the rename loop of Rotate from index i down to 0; failAt is the index whose rename
\* fails with an error other than "does not exist" (-1: none does)
RECURSIVE RenameChain(_, _, _, _)
RenameChain(d, path, i, failAt) ==
    IF ~LoopContinues(i) THEN [err |-> FALSE, dir |-> d]
    ELSE LET newerFile == IF i = 0 THEN path ELSE Sibling(path, i - 1)
             olderFile == Sibling(path, i)
         IN  IF RenameFails(failAt, i) THEN [err |-> TRUE, dir |-> d]
             ELSE IF newerFile \notin DOMAIN d THEN RenameChain(d, path, i - 1, failAt)
             ELSE RenameChain(OsRename(d, newerFile, olderFile), path, i - 1, failAt)

\* the counter Rotate leaves after it has created the new file
CountKept(bytesWritten) == bytesWritten

CountAfterRotate(bytesWritten) == 0

\* a failure the environment produces inside one call: none, or the Close, the Create
\* or the rename of index at
Fault(kind, at) == [kind |-> kind, at |-> at]

NoFault == Fault("none", -1)

\* func (l *LogFile) Rotate(maxLogFiles int) error
Rotate(l, d, ino, maxFiles, f) ==
    LET closed == [l EXCEPT !.File.closed = TRUE]
        chain  == RenameChain(d, PathOf(l.Name), LoopStart(maxFiles),
                              IF f.kind = "rename" THEN f.at ELSE -1)
        c      == OsCreate(chain.dir, ino, PathOf(l.Name), f.kind = "create")
    IN  IF l.File.closed \/ f.kind = "close"
        THEN [err |-> TRUE, l |-> closed, dir |-> d, inodes |-> ino]
        ELSE IF chain.err
        THEN [err |-> TRUE, l |-> closed, dir |-> chain.dir, inodes |-> ino]
        ELSE IF c.err
        THEN [err |-> TRUE, l |-> closed, dir |-> chain.dir, inodes |-> ino]
        ELSE [err |-> FALSE, dir |-> c.dir, inodes |-> c.inodes,
              l |-> [l EXCEPT !.File = c.File, !.BytesWritten = CountAfterRotate(@)]]

-----------------------------------------------------------------------------
(* The consumer: func main.                                                 *)

logDump == 0

logFollow == 1

logDumpFollow == 2

T0 == Time(2021, 1, 1, 0, 0, 0, 0, 0)

app == <<"a", "p", "p">>

app0 == <<"a", "p", "p", ".", "0">>

logwrite == <<"l", "o", "g", "w", "r", "i", "t", "e">>

\* the lines the daemon may send, each as ReadString('\n') returns it
Lines == <<
    WireLine(LogMessage(T0, app, <<"m", "s", "g", "1", "\n">>)),
    WireLine(LogMessage(T0, app, <<"m", "s", "g", "2", "\n">>)),
    WireLine(LogMessage(T0, app, <<"m", "s", "g", "3", "\n">>)),
    WireLine(LogMessage(T0, app0, <<"z", "\n">>)),
    WireLine(LogMessage(T0, logwrite, <<"o", "w", "n", "\n">>)),
    <<"g", "a", "r", "b", "l", "e", "d", "\n">> >>

\* the values of -max-log-files and -max-log-size the runs are started with
MaxLogFilesFlags == {0, 1, 2}

MaxLogSizeFlags == {29, 30, 50}

\* whether the environment may still make an I/O call fail
MayFail == faults < MaxFaults

\* the trigger of line 180
NeedsRotateGeq(bytesWritten, limit) == bytesWritten >= limit

NeedsRotate(bytesWritten, limit) == bytesWritten > limit

OwnPrefixLonger == logwrite \o <<"d">>

\* the prefix of the names main does not log
OwnPrefix == logwrite

Step(op, name, err) == [op |-> op, name |-> name, err |-> err]

\* the truncation counts after a step that turns the inode table ino into ino2
TruncsAfter(ino, ino2) ==
    [i \in DOMAIN ino2 |->
        IF i \notin DOMAIN ino THEN 0
        ELSE IF ino[i] # <<>> /\ ino2[i] = <<>> THEN truncs[i] + 1
        ELSE truncs[i]]

AfterParseErrorFatal == "fatal"

\* where main goes when ParseLogMessage fails: log.Println and continue (lines 159-162)
AfterParseError == "read"

KnownNever(m, name) == FALSE

\* the lookup in the map of LogFiles (line 170)
Known(m, name) == name \in DOMAIN m

AfterWriteIgnored(err) == "check"

\* where main goes after logF.Write: log.Fatalf on an error (lines 177-179)
AfterWrite(err) == IF err THEN "fatal" ELSE "check"

\* where main goes when ReadString returns io.EOF: it returns (lines 152-154)
AfterEOFRead == "read"

AfterEOF == "done"

\* the data ReadString returns together with io.EOF: what the daemon sent after the
\* last newline, nothing or the beginning of a line (here a whole line but its newline)
Tails == {<<>>, SubSeq(Lines[1], 1, Len(Lines[1]) - 1)}

AfterReadErrorRetry == "read"

\* where main goes when ReadString returns another error: log.Fatalf (lines 155-157)
AfterReadError == "fatal"

\* net.DialUnix (lines 135-138)
Connect ==
    /\ pc = "connect"
    /\ \/ /\ pc' = "cmd"
          /\ last' = Step("connect", <<>>, FALSE)
          /\ UNCHANGED faults
       \/ /\ MayFail
          /\ pc' = "fatal"
          /\ faults' = faults + 1
          /\ last' = Step("connect", <<>>, TRUE)
    /\ UNCHANGED <<maxLogFiles, maxLogSize, sockOut, received, cur, logs, dir, inodes,
                   rotations, rotFailed, appended, firstGen, truncs, written>>
    /\ UNCHANGED <<codecVars, sinkVars>>

CommandDump == logDump

\* the command byte main sends (line 141)
Command == logDumpFollow

\* conn.Write([]byte{logDumpFollow}) (lines 141-144)
SendCommand ==
    /\ pc = "cmd"
    /\ \/ /\ pc' = "read"
          /\ sockOut' = Append(sockOut, Command)
          /\ last' = Step("command", <<>>, FALSE)
          /\ UNCHANGED faults
       \/ /\ MayFail
          /\ pc' = "fatal"
          /\ faults' = faults + 1
          /\ last' = Step("command", <<>>, TRUE)
          /\ UNCHANGED sockOut
    /\ UNCHANGED <<maxLogFiles, maxLogSize, received, cur, logs, dir, inodes,
                   rotations, rotFailed, appended, firstGen, truncs, written>>
    /\ UNCHANGED <<codecVars, sinkVars>>

\* r.ReadString returns io.EOF (lines 151-154)
ReadEOF ==
    /\ pc = "read"
    /\ pc' = AfterEOF
    /\ \E tail \in Tails :
        last' = [op |-> "eof", name |-> <<>>, err |-> FALSE, tail |-> tail]
    /\ UNCHANGED <<maxLogFiles, maxLogSize, sockOut, received, cur, logs, dir, inodes,
                   faults, rotations, rotFailed, appended, firstGen, truncs, written>>
    /\ UNCHANGED <<codecVars, sinkVars>>

\* r.ReadString returns another error (lines 155-157)
ReadError ==
    /\ pc = "read"
    /\ MayFail
    /\ pc' = AfterReadError
    /\ faults' = faults + 1
    /\ last' = Step("read", <<>>, TRUE)
    /\ UNCHANGED <<maxLogFiles, maxLogSize, sockOut, received, cur, logs, dir, inodes,
                   rotations, rotFailed, appended, firstGen, truncs, written>>
    /\ UNCHANGED <<codecVars, sinkVars>>

\* one line is read, decoded and routed to its LogFile (lines 151-176)
ReadLine ==
    /\ pc = "read"
    /\ Len(received) < MaxLines
    /\ \E i \in 1..Len(Lines), failCreate \in BOOLEAN :
        LET p == ParseLogMessage(Lines[i])
            n == NewLogFile(dir, inodes, p.msg.Name, failCreate)
        IN  /\ received' = Append(received, i)
            /\ failCreate => /\ MayFail
                             /\ p.err = "nil"
                             /\ ~HasPrefix(p.msg.Name, OwnPrefix)
                             /\ ~Known(logs, p.msg.Name)
            /\ IF p.err # "nil"
               THEN /\ pc' = AfterParseError
                    /\ last' = Step("malformed", <<>>, TRUE)
                    /\ UNCHANGED <<cur, logs, dir, inodes, faults, rotations, appended,
                                   firstGen, truncs, written>>
               ELSE IF HasPrefix(p.msg.Name, OwnPrefix)
               THEN /\ pc' = "read"
                    /\ last' = Step("own", p.msg.Name, FALSE)
                    /\ UNCHANGED <<cur, logs, dir, inodes, faults, rotations, appended,
                                   firstGen, truncs, written>>
               ELSE IF Known(logs, p.msg.Name)
               THEN /\ pc' = "write"
                    /\ cur' = p.msg
                    /\ last' = Step("lookup", p.msg.Name, FALSE)
                    /\ UNCHANGED <<logs, dir, inodes, faults, rotations, appended,
                                   firstGen, truncs, written>>
               ELSE IF n.err
               THEN /\ pc' = "fatal"
                    /\ faults' = IF failCreate THEN faults + 1 ELSE faults
                    /\ last' = Step("create", p.msg.Name, TRUE)
                    /\ UNCHANGED <<cur, logs, dir, inodes, rotations, appended,
                                   firstGen, truncs, written>>
               ELSE /\ pc' = "write"
                    /\ cur' = p.msg
                    /\ logs' = logs @@ (p.msg.Name :> n.l)
                    /\ dir' = n.dir
                    /\ inodes' = n.inodes
                    /\ rotations' = rotations @@ (p.msg.Name :> 0)
                    /\ appended' = appended @@ (p.msg.Name :> 0)
                    /\ firstGen' = firstGen @@ (p.msg.Name :> Nil)
                    /\ truncs' = TruncsAfter(inodes, n.inodes)
                    /\ last' = Step("create", p.msg.Name, FALSE)
                    /\ UNCHANGED <<faults, written>>
    /\ UNCHANGED <<maxLogFiles, maxLogSize, sockOut, rotFailed>>
    /\ UNCHANGED <<codecVars, sinkVars>>

\* logF.Write(msg) (lines 177-179)
WriteMsg ==
    /\ pc = "write"
    /\ \E short \in {-1, 0, 7} :
        LET w == Write(logs[cur.Name], inodes, cur, short)
        IN  /\ short >= 0 => MayFail /\ ~logs[cur.Name].File.closed
            /\ logs' = [logs EXCEPT ![cur.Name] = w.l]
            /\ inodes' = w.inodes
            /\ appended' = [appended EXCEPT ![cur.Name] = @ + w.n]
            /\ faults' = IF short >= 0 THEN faults + 1 ELSE faults
            /\ pc' = AfterWrite(w.err)
            /\ written' = IF w.err THEN written ELSE Append(written, received[Len(received)])
            /\ last' = [op |-> "write", name |-> cur.Name, err |-> w.err, n |-> w.n,
                        text |-> String(cur)]
    /\ UNCHANGED <<maxLogFiles, maxLogSize, sockOut, received, cur, dir, rotations, rotFailed,
                   firstGen, truncs>>
    /\ UNCHANGED <<codecVars, sinkVars>>

\* the failures the environment may produce inside one Rotate
RotateFaults == {NoFault} \cup
    (IF MayFail
     THEN {Fault("close", -1), Fault("create", -1)}
          \cup {Fault("rename", i) : i \in 0..(LoopStart(maxLogFiles))}
     ELSE {})

\* the size check and the rotation it may start (lines 180-182); the error Rotate
\* returns is dropped
CheckRotate ==
    /\ pc = "check"
    /\ pc' = "read"
    /\ cur' = Nil
    /\ IF NeedsRotate(logs[cur.Name].BytesWritten, maxLogSize)
       THEN \E f \in RotateFaults :
            LET r == Rotate(logs[cur.Name], dir, inodes, maxLogFiles, f)
            IN  /\ logs' = [logs EXCEPT ![cur.Name] = r.l]
                /\ dir' = r.dir
                /\ inodes' = r.inodes
                /\ faults' = IF f = NoFault THEN faults ELSE faults + 1
                /\ rotations' = [rotations EXCEPT ![cur.Name] = IF r.err THEN @ ELSE @ + 1]
                /\ rotFailed' = IF r.err THEN rotFailed \cup {cur.Name} ELSE rotFailed
                /\ appended' = [appended EXCEPT ![cur.Name] = IF r.err THEN @ ELSE 0]
                /\ truncs' = TruncsAfter(inodes, r.inodes)
                /\ firstGen' = IF ~r.err /\ firstGen[cur.Name] = Nil
                               THEN [firstGen EXCEPT ![cur.Name] =
                                        [ino     |-> logs[cur.Name].File.ino,
                                         content |-> inodes[logs[cur.Name].File.ino],
                                         truncs  |-> truncs[logs[cur.Name].File.ino]]]
                               ELSE firstGen
                /\ last' = [op |-> "rotate", name |-> cur.Name, err |-> r.err,
                            fault |-> f, wasClosed |-> logs[cur.Name].File.closed]
                /\ UNCHANGED written
       ELSE /\ last' = Step("norotate", cur.Name, FALSE)
            /\ UNCHANGED <<logs, dir, inodes, faults, rotations, rotFailed, appended,
                           firstGen, truncs, written>>
    /\ UNCHANGED <<maxLogFiles, maxLogSize, sockOut, received>>
    /\ UNCHANGED <<codecVars, sinkVars>>

\* the value of ret before any call on a sink
NoCall == [op |-> "none", sink |-> 0, name |-> <<>>, err |-> FALSE, path |-> <<>>]

\* no FIFO, no goroutine, no datagram, no DumpAll
RemoteIdle ==
    /\ fifos = <<>>
    /\ tasks = <<>>
    /\ ctlSent = <<>>
    /\ openFds = {}
    /\ exited = FALSE
    /\ sfaults = 0
    /\ dumpPc = "idle"
    /\ queryOut = <<>>
    /\ stdout = <<>>

\* no sink has been asked for
SinkIdle ==
    /\ ctlPath = "absent"
    /\ sinks = <<>>
    /\ stats = <<>>
    /\ logDir = <<>>
    /\ logInodes = <<>>
    /\ held = <<>>
    /\ ret = NoCall
    /\ ncalls = 0
    /\ RemoteIdle

CodecIdle ==
    /\ cstage = "idle"
    /\ cvia = "none"
    /\ cmsg = Nil
    /\ cline = <<>>
    /\ cres = Nil

Init ==
    /\ pc = "connect"
    /\ maxLogFiles \in MaxLogFilesFlags
    /\ maxLogSize \in MaxLogSizeFlags
    /\ sockOut = <<>>
    /\ received = <<>>
    /\ cur = Nil
    /\ logs = <<>>
    /\ dir = <<>>
    /\ inodes = <<>>
    /\ faults = 0
    /\ last = Step("start", <<>>, FALSE)
    /\ rotations = <<>>
    /\ rotFailed = {}
    /\ appended = <<>>
    /\ firstGen = <<>>
    /\ truncs = <<>>
    /\ written = <<>>
    /\ CodecIdle
    /\ SinkIdle

Next ==
    \/ Connect
    \/ SendCommand
    \/ ReadEOF
    \/ ReadError
    \/ ReadLine
    \/ WriteMsg
    \/ CheckRotate

Spec == Init /\ [][Next]_vars

-----------------------------------------------------------------------------
(* The codec on its own: LogMessage.String and ParseLogMessage applied to   *)
(* messages and lines drawn from bounded sets.                              *)

svc == <<"s", "v", "c">>

helloWorld == <<"h", "e", "l", "l", "o", " ", "w", "o", "r", "l", "d">>

\* "2021-01-01T00:00:00Z,svc;hello world"
ExampleLine == TimeFormat(T0) \o <<",">> \o svc \o <<";">> \o helloWorld

\* a header with a third field and a body with a second ";"
ExtendedLine == TimeFormat(T0) \o <<",">> \o svc \o <<",", "x", ";", "a", ";", "b", "\n">>

\* 2021-01-01T00:00:00.5Z
StampFrac == SubSeq(TimeFormat(T0), 1, 19) \o <<".", "5", "Z">>

\* 2021-13-01T00:00:00Z: no such month
StampBad == TimeFormat(Time(2021, 13, 1, 0, 0, 0, 0, 0))

Tokens == {TimeFormat(T0), StampFrac, StampBad, svc, <<",">>, <<";">>, <<"x", "\n">>}

TokenLines == {Concat(ts) : ts \in UNION {[1..n -> Tokens] : n \in 0..MaxTokens}}

GivenLines == TokenLines \cup {ExampleLine, ExtendedLine}

GivenTimes == {T0, Time(2021, 1, 1, 0, 0, 0, 500000000, 0),
               Time(2024, 2, 29, 23, 59, 59, 0, -330)}

GivenNames == {svc, <<>>, <<"a", " ", "b">>, <<"a", ",", "b">>, <<"a", ";", "b">>}

GivenBodies == {helloWorld, <<>>, <<"a", ";", "b">>, <<"x", ",", "y", ";", "z">>,
                <<"m", "\n", "n">>}

GivenMessages == {LogMessage(t, n, b) : t \in GivenTimes, n \in GivenNames, b \in GivenBodies}

ConsumerIdle ==
    /\ pc = "idle"
    /\ maxLogFiles = 10
    /\ maxLogSize = 1024
    /\ sockOut = <<>>
    /\ received = <<>>
    /\ cur = Nil
    /\ logs = <<>>
    /\ dir = <<>>
    /\ inodes = <<>>
    /\ faults = 0
    /\ last = Step("start", <<>>, FALSE)
    /\ rotations = <<>>
    /\ rotFailed = {}
    /\ appended = <<>>
    /\ firstGen = <<>>
    /\ truncs = <<>>
    /\ written = <<>>

InitCodec ==
    /\ ConsumerIdle
    /\ SinkIdle
    /\ cres = Nil
    /\ \/ /\ cstage = "msg"
          /\ cvia = "none"
          /\ cmsg \in GivenMessages
          /\ cline = <<>>
       \/ /\ cstage = "line"
          /\ cvia = "given"
          /\ cmsg = Nil
          /\ cline \in GivenLines

\* m.String()
CodecString ==
    /\ cstage = "msg"
    /\ cstage' = "line"
    /\ cvia' = "String"
    /\ cline' = String(cmsg)
    /\ UNCHANGED <<cmsg, cres>>
    /\ UNCHANGED <<consumerVars, sinkVars>>

\* the line memlogd sends for m
CodecWire ==
    /\ cstage = "msg"
    /\ cstage' = "line"
    /\ cvia' = "wire"
    /\ cline' = WireLine(cmsg)
    /\ UNCHANGED <<cmsg, cres>>
    /\ UNCHANGED <<consumerVars, sinkVars>>

\* ParseLogMessage(line)
CodecParse ==
    /\ cstage = "line"
    /\ cstage' = "parsed"
    /\ cres' = ParseLogMessage(cline)
    /\ UNCHANGED <<cmsg, cline, cvia>>
    /\ UNCHANGED <<consumerVars, sinkVars>>

NextCodec ==
    \/ CodecString
    \/ CodecWire
    \/ CodecParse

SpecCodec == InitCodec /\ [][NextCodec]_vars

-----------------------------------------------------------------------------
(* Properties of the rotated log files and the consumer loop.               *)

Min(a, b) == IF a < b THEN a ELSE b

\* the service whose name is a
Dotted(a, b) == HasPrefix(a, b \o <<".">>)

\* no other service main logs has a name that extends s with ".", or that s extends
Alone(s) == \A n \in DOMAIN logs : n = s \/ (~Dotted(n, s) /\ ~Dotted(s, n))

\* the directory entries named s.<digits>
NumberedSiblings(s) ==
    {p \in DOMAIN dir : /\ Len(p) > Len(s) + 1
                        /\ SubSeq(p, 1, Len(s) + 1) = s \o <<".">>
                        /\ AllDigits(SubSeq(p, Len(s) + 2, Len(p)))}

\* the directory entries of service s: the base file and the numbered siblings
FilesOf(s) == (DOMAIN dir \cap {s}) \cup NumberedSiblings(s)

\* the file the first Rotate of s moved away is still the content of entry p
HoldsFirst(s, p) ==
    /\ p \in DOMAIN dir
    /\ dir[p] = firstGen[s].ino
    /\ truncs[dir[p]] = firstGen[s].truncs
    /\ inodes[dir[p]] = firstGen[s].content

\* C1: in the consumer loop a successful append is followed, before any further line is
\* read, by the size check, and that check rotates the file exactly when its byte counter
\* is strictly greater than maxLogSize; with the counter equal to maxLogSize nothing is
\* rotated, closed or renamed.
C1_RotateIffOver ==
    [][/\ (pc = "write" /\ pc' # "fatal") => (pc' = "check" /\ received' = received)
       /\ pc = "check" =>
            /\ pc' = "read"
            /\ received' = received
            /\ (last'.op = "rotate") <=> (logs[cur.Name].BytesWritten > maxLogSize)
            /\ (logs'[cur.Name].File # logs[cur.Name].File)
                 <=> (logs[cur.Name].BytesWritten > maxLogSize)
            /\ (logs[cur.Name].BytesWritten <= maxLogSize)
                 => (logs' = logs /\ dir' = dir /\ inodes' = inodes)]_vars

C1_Witness ==
    /\ last.op = "norotate"
    /\ logs[last.name].BytesWritten = maxLogSize

C4_AfterRotate ==
    [][(pc = "check" /\ last'.op = "rotate" /\ ~last'.err) =>
            /\ PathOf(cur.Name) \in DOMAIN dir'
            /\ inodes'[dir'[PathOf(cur.Name)]] = <<>>
            /\ logs'[cur.Name].File = Handle(dir'[PathOf(cur.Name)], 0, FALSE)
            /\ logs'[cur.Name].BytesWritten = 0]_vars

C4_Witness ==
    /\ last.op = "rotate" /\ ~last.err
    /\ rotations[last.name] >= 1
    /\ inodes[dir[PathOf(last.name)]] = <<>>
    /\ logs[last.name].BytesWritten = 0

\* the text Write puts in the file for line i of Lines
Written(i) == String(ParseLogMessage(Lines[i]).msg)

\* the run of the end-to-end scenario: maxLogSize = 50, no I/O failure, and the three
\* 30-byte messages msg1, msg2, msg3 of service app received in that order
InScenario ==
    /\ maxLogSize = 50
    /\ faults = 0
    /\ Len(received) <= 3
    /\ received = SubSeq(<<1, 2, 3>>, 1, Len(received))
    /\ \A i \in 1..3 : Len(Lines[i]) = 30 /\ Len(Written(i)) = 30

\* the line last read has been appended and checked
LineDone == pc \in {"read", "done"}

ScenarioRotations ==
    app \in DOMAIN logs =>
        rotations[app] = IF Len(received) = 3 \/ (Len(received) = 2 /\ LineDone) THEN 1 ELSE 0

ScenarioFiles ==
    (Len(received) = 3 /\ LineDone) =>
        /\ FilesOf(app) = {app, app \o <<".", "0">>}
        /\ inodes[dir[app \o <<".", "0">>]] = Written(1) \o Written(2)
        /\ inodes[dir[app]] = Written(3)

\* C5 as stated: from an empty directory with maxLogSize = 50, three 30-byte messages for
\* app give exactly one rotation, right after the second message, app.0 holding the first
\* two messages in order and app the third, whatever maxLogFiles is.
C5_Original == InScenario => (ScenarioRotations /\ ScenarioFiles)

\* C5 amended: the same, with maxLogFiles >= 1 (with -max-log-files 0 the rotation keeps
\* no app.0: the first two messages are dropped).
C5_Scenario == (InScenario /\ maxLogFiles >= 1) => (ScenarioRotations /\ ScenarioFiles)

C5_Witness ==
    /\ InScenario /\ maxLogFiles >= 1
    /\ Len(received) = 3 /\ pc = "done"
    /\ rotations[app] = 1
    /\ inodes[dir[app]] = Written(3)

\* the consumer process has not exited through log.Fatal
Alive == pc # "fatal"

-----------------------------------------------------------------------------
(* Properties of the codec.                                                  *)

\* the positions of character c in s
Positions(s, c) == {i \in 1..Len(s) : s[i] = c}

Least(S) == CHOOSE i \in S : \A j \in S : i <= j

\* the text of s before its first c (all of s when it has none)
Before(s, c) == IF Positions(s, c) = {} THEN s ELSE SubSeq(s, 1, Least(Positions(s, c)) - 1)

\* the text of s after its first c
After(s, c) == SubSeq(s, Least(Positions(s, c)) + 1, Len(s))

HeaderOf(line) == Before(line, ";")

Field0(line) == Before(HeaderOf(line), ",")

Field1(line) == Before(After(HeaderOf(line), ","), ",")

\* the RFC3339 timestamps among the texts the bounded inputs can put in field 0
KnownStamps ==
    {TimeFormat(T0), StampFrac} \cup {TimeFormat(t) : t \in GivenTimes}

\* a line with a ";", a header of at least two fields and an RFC3339 timestamp in field 0
WellFormed(line) ==
    /\ Positions(line, ";") # {}
    /\ Positions(HeaderOf(line), ",") # {}
    /\ Field0(line) \in KnownStamps

NameClean(name) == Positions(name, ",") = {} /\ Positions(name, ";") = {}

C9_Parse ==
    cstage = "parsed" =>
        /\ WellFormed(cline) =>
              /\ cres.err = "nil"
              /\ cres.msg.Time = TimeParse(Field0(cline)).t
              /\ cres.msg.Name = Field1(cline)
              /\ cres.msg.Message = After(cline, ";")
        /\ cline = ExampleLine => cres = [msg |-> LogMessage(T0, svc, helloWorld), err |-> "nil"]

C9_Witness ==
    /\ cstage = "parsed"
    /\ cline = ExtendedLine
    /\ cres.err = "nil"
    /\ cres.msg.Name = svc
    /\ cres.msg.Message = <<"a", ";", "b", "\n">>

\* C10: ParseLogMessage returns an error, and no message, exactly when the line has no
\* ";", or its header has fewer than two comma-separated fields, or field 0 is not an
\* RFC3339 timestamp.
C10_Errors ==
    cstage = "parsed" =>
        /\ (cres.err # "nil") <=> ~WellFormed(cline)
        /\ (cres.err # "nil") <=> (cres.msg = Nil)

C10_Witness ==
    /\ cstage = "parsed"
    /\ Positions(cline, ";") # {}
    /\ Positions(HeaderOf(cline), ",") # {}
    /\ Field0(cline) = StampBad
    /\ cres = [msg |-> Nil, err |-> "time.Parse"]

-----------------------------------------------------------------------------
(* The log sinks of init (pkg/init/cmd/service/logging.go): GetLog and the   *)
(* fileLog, called by one process while the control socket of the external  *)
(* logging daemon comes and goes.                                           *)

\* "/var/run/external-logging.sock"
logWriteSocket ==
    <<"/", "v", "a", "r", "/", "r", "u", "n", "/", "e", "x", "t", "e", "r", "n", "a", "l",
      "-", "l", "o", "g", "g", "i", "n", "g", ".", "s", "o", "c", "k">>

\* "/var/run"
VarRun == <<"/", "v", "a", "r", "/", "r", "u", "n">>

\* "/var/log", the logDir the callers pass to GetLog
VarLog == <<"/", "v", "a", "r", "/", "l", "o", "g">>

\* "/dev/null"
DevNull == <<"/", "d", "e", "v", "/", "n", "u", "l", "l">>

\* filepath.Join(dir, file) of a clean absolute directory and a plain file name
Join(d, file) == d \o <<"/">> \o file

\* name + ".log"
DotLog(name) == name \o <<".", "l", "o", "g">>

\* the errors os.Stat(logWriteSocket) can return: nil when it reaches the path, ENOENT
\* when the path is absent, and whatever the path another error (EACCES stands for
\* every error that is not "does not exist")
StatErrors(p) == IF p = "present" THEN {"nil", "EACCES"} ELSE {"ENOENT", "EACCES"}

\* os.IsNotExist(err)
IsNotExist(err) == err = "ENOENT"

EnabledInverted(err) == IsNotExist(err)

\* the test of GetLog for "an external logging system is enabled"
Enabled(err) == ~IsNotExist(err)

\* &remoteLog{fifoDir: fifoDir}
RemoteLog(fifoDir) == [kind |-> "remoteLog", dir |-> fifoDir]

FileLogRemote(d) == RemoteLog(d)

\* &fileLog{dir: dir}
FileLog(d) == [kind |-> "fileLog", dir |-> d]

\* the Log GetLog returns when os.Stat(logWriteSocket) has returned err
GetLogOf(d, err) == IF Enabled(err) THEN RemoteLog(VarRun) ELSE FileLog(d)

\* fileLog.Open(name): os.Create(filepath.Join(f.dir, name + ".log"))
FileLogOpen(f, d, ino, name, fail) == OsCreate(d, ino, Join(f.dir, DotLog(name)), fail)

PathResultAlways(f, name, err) == Join(f.dir, DotLog(name))

\* what fileLog.Path returns once Open has returned err
PathResult(f, name, err) == IF err THEN DevNull ELSE Join(f.dir, DotLog(name))

\* what a call on a sink returned
Returned(op, k, name, err, path) ==
    [op |-> op, sink |-> k, name |-> name, err |-> err, path |-> path]

\* the service names the process asks log files for
ServiceNames == {svc, app}

\* the daemon creates its control socket / the socket is removed
CtlChanges ==
    /\ ctlPath' = IF ctlPath = "present" THEN "absent" ELSE "present"
    /\ UNCHANGED <<sinks, stats, logDir, logInodes, held, ret, ncalls>>
    /\ UNCHANGED remoteVars
    /\ UNCHANGED <<consumerVars, codecVars>>

\* GetLog(logDir) (lines 34-45)
GetLog ==
    /\ ~exited
    /\ Len(sinks) < MaxSinks
    /\ \E err \in StatErrors(ctlPath) :
        /\ sinks' = Append(sinks, GetLogOf(VarLog, err))
        /\ stats' = Append(stats, [path |-> ctlPath, err |-> err])
        /\ ret' = Returned("GetLog", Len(sinks) + 1, <<>>, FALSE, <<>>)
    /\ UNCHANGED <<ctlPath, logDir, logInodes, held, ncalls>>
    /\ UNCHANGED remoteVars
    /\ UNCHANGED <<consumerVars, codecVars>>

\* fileLog.Path(name) (lines 52-61)
FileLogPath ==
    /\ ~exited
    /\ ncalls < MaxCalls
    /\ \E k \in DOMAIN sinks, name \in ServiceNames, fail \in BOOLEAN :
        LET f == sinks[k]
            o == FileLogOpen(f, logDir, logInodes, name, fail)
        IN  /\ f.kind = "fileLog"
            /\ logDir' = o.dir
            /\ logInodes' = o.inodes
            /\ ret' = Returned("Path", k, name, o.err, PathResult(f, name, o.err))
    /\ ncalls' = ncalls + 1
    /\ UNCHANGED <<ctlPath, sinks, stats, held>>
    /\ UNCHANGED remoteVars
    /\ UNCHANGED <<consumerVars, codecVars>>

\* fileLog.Open(name) called directly (lines 64-66)
FileLogOpenCall ==
    /\ ~exited
    /\ ncalls < MaxCalls
    /\ \E k \in DOMAIN sinks, name \in ServiceNames, fail \in BOOLEAN :
        LET f == sinks[k]
            o == FileLogOpen(f, logDir, logInodes, name, fail)
        IN  /\ f.kind = "fileLog"
            /\ logDir' = o.dir
            /\ logInodes' = o.inodes
            /\ held' = IF o.err THEN held ELSE Append(held, o.File)
            /\ ret' = Returned("Open", k, name, o.err, <<>>)
    /\ ncalls' = ncalls + 1
    /\ UNCHANGED <<ctlPath, sinks, stats>>
    /\ UNCHANGED remoteVars
    /\ UNCHANGED <<consumerVars, codecVars>>

\* a service writes a byte of output to the log file it was started with
ServiceOutput ==
    /\ \E path \in DOMAIN logDir :
        /\ Len(logInodes[logDir[path]]) < MaxOutput
        /\ logInodes' = [logInodes EXCEPT ![logDir[path]] = Append(@, "x")]
    /\ UNCHANGED <<ctlPath, sinks, stats, logDir, held, ret, ncalls>>
    /\ UNCHANGED remoteVars
    /\ UNCHANGED <<consumerVars, codecVars>>

\* logDumpCommand, the first constant of its iota block
logDumpCommand == 0

\* errors.New("logging system not enabled")
errLoggingNotEnabled == "logging system not enabled"

\* the environment may still produce an I/O failure in the sinks
MayFailSink == sfaults < MaxFaults

\* a descriptor of the process: the read end of a FIFO (of the goroutine id) or an end
\* of a socket pair (of the Open call id)
Fd(obj, name, id) == [obj |-> obj, name |-> name, id |-> id]

\* the -1 syscall.Open returns together with an error
NoFd == Fd("none", <<>>, -1)

MkfifoAgain(fs, path, fail) ==
    IF fail THEN [err |-> TRUE, fifos |-> fs]
    ELSE IF path \in DOMAIN fs THEN [err |-> FALSE, fifos |-> fs]
    ELSE [err |-> FALSE, fifos |-> fs @@ (path :> FALSE)]

\* syscall.Mkfifo(path, 0600): fails with EEXIST on a path that exists
Mkfifo(fs, path, fail) ==
    IF fail \/ path \in DOMAIN fs
    THEN [err |-> TRUE, fifos |-> fs]
    ELSE [err |-> FALSE, fifos |-> fs @@ (path :> FALSE)]

RemotePathResultAlways(path, err) == path

\* what remoteLog.Path returns once Mkfifo has returned err
RemotePathResult(path, err) == IF err THEN DevNull ELSE path

\* the goroutine of remoteLog.Path before its syscall.Open
Task(name, path) ==
    [name |-> name, path |-> path, pc |-> "open", fd |-> NoFd, opens |-> 0,
     calls |-> 0, fault |-> "none", res |-> "nil"]

\* []byte(name) with syscall.UnixRights(fd)
Datagram(name, fd) == [payload |-> name, oob |-> <<fd>>]

WriteMsgErrorNil == "nil"

\* what sendToLogger returns when WriteMsgUnix has failed
WriteMsgError == errLoggingNotEnabled

RightsRejectedNever(fd) == FALSE

\* WriteMsgUnix with syscall.UnixRights(fd) fails (EBADF) when fd is not an open
\* descriptor of the process, as the -1 of a failed syscall.Open
RightsRejected(fd) == fd = NoFd

\* sendToLogger(name, fd): fault names the call the environment makes fail: socket,
\* fileconn, send or none.  WriteMsgUnix also fails when nothing is bound to the control
\* socket path (ctl is absent) and when fd is not an open descriptor; sent is the
\* datagram delivered, if any
SendToLogger(name, fd, fault, ctl) ==
    IF fault = "socket" THEN [err |-> "syscall.Socket", sent |-> <<>>]
    ELSE IF fault = "fileconn" THEN [err |-> "net.FileConn", sent |-> <<>>]
    ELSE IF fault = "send" \/ ctl = "absent" \/ RightsRejected(fd)
    THEN [err |-> WriteMsgError, sent |-> <<>>]
    ELSE [err |-> "nil", sent |-> <<Datagram(name, fd)>>]

\* the failures the environment may produce inside one sendToLogger
SendFaults == {"none"} \cup (IF MayFailSink THEN {"socket", "fileconn", "send"} ELSE {})

\* what a call on the remoteLog returned: error is the error value, handle the file
RemoteReturned(op, k, name, error, path, handle, fault) ==
    [op |-> op, sink |-> k, name |-> name, err |-> error # "nil", path |-> path,
     error |-> error, handle |-> handle, fault |-> fault]

\* remoteLog.Path(name) (lines 91-111): the goroutine is started, not waited for
RemotePath ==
    /\ ~exited
    /\ ncalls < MaxCalls
    /\ \E k \in DOMAIN sinks, name \in ServiceNames, fail \in BOOLEAN :
        LET r == sinks[k]
            path == Join(r.dir, DotLog(name))
            m == Mkfifo(fifos, path, fail)
        IN  /\ r.kind = "remoteLog"
            /\ fail => MayFailSink /\ path \notin DOMAIN fifos
            /\ fifos' = m.fifos
            /\ tasks' = IF m.err THEN tasks ELSE Append(tasks, Task(name, path))
            /\ sfaults' = IF fail THEN sfaults + 1 ELSE sfaults
            /\ ret' = RemoteReturned("remoteLog.Path", k, name,
                                     IF m.err THEN "syscall.Mkfifo" ELSE "nil",
                                     RemotePathResult(path, m.err), NoFd,
                                     IF fail THEN "mkfifo" ELSE "none")
    /\ ncalls' = ncalls + 1
    /\ UNCHANGED <<ctlPath, sinks, stats, logDir, logInodes, held>>
    /\ UNCHANGED <<ctlSent, openFds, exited, dumpPc, queryOut, stdout>>
    /\ UNCHANGED <<consumerVars, codecVars>>

\* another process (containerd starting the service) opens a FIFO for writing
WriterOpens ==
    /\ \E path \in DOMAIN fifos :
        /\ ~fifos[path]
        /\ fifos' = [fifos EXCEPT ![path] = TRUE]
    /\ UNCHANGED <<ctlPath, sinks, stats, logDir, logInodes, held, ret, ncalls>>
    /\ UNCHANGED <<tasks, ctlSent, openFds, exited, sfaults, dumpPc, queryOut, stdout>>
    /\ UNCHANGED <<consumerVars, codecVars>>

OpenReturnsAtOnce(fs, path) == TRUE

\* a blocking syscall.Open(path, O_RDONLY) of a FIFO returns a descriptor once a
\* writer has the FIFO open
OpenReturns(fs, path) == fs[path]

\* the syscall.Open of goroutine i returns a descriptor: a writer has the FIFO open
\* (lines 99-100)
TaskOpened(i) ==
    /\ i \in DOMAIN tasks
    /\ ~exited
    /\ tasks[i].pc = "open"
    /\ OpenReturns(fifos, tasks[i].path)
    /\ tasks' = [tasks EXCEPT ![i].pc = "send", ![i].opens = @ + 1,
                              ![i].fd = Fd("fifo", tasks[i].path, i)]
    /\ openFds' = openFds \cup {Fd("fifo", tasks[i].path, i)}
    /\ UNCHANGED <<ctlPath, sinks, stats, logDir, logInodes, held, ret, ncalls>>
    /\ UNCHANGED <<fifos, ctlSent, exited, sfaults, dumpPc, queryOut, stdout>>
    /\ UNCHANGED <<consumerVars, codecVars>>

\* the syscall.Open of goroutine i returns an error: it is logged and the goroutine
\* goes on with fd = -1 (lines 100-104)
TaskOpenFails(i) ==
    /\ i \in DOMAIN tasks
    /\ ~exited
    /\ tasks[i].pc = "open"
    /\ MayFailSink
    /\ tasks' = [tasks EXCEPT ![i].pc = "send", ![i].opens = @ + 1, ![i].fd = NoFd,
                              ![i].fault = "open"]
    /\ sfaults' = sfaults + 1
    /\ UNCHANGED <<ctlPath, sinks, stats, logDir, logInodes, held, ret, ncalls>>
    /\ UNCHANGED <<fifos, ctlSent, openFds, exited, dumpPc, queryOut, stdout>>
    /\ UNCHANGED <<consumerVars, codecVars>>

\* goroutine i calls sendToLogger, logs its error, closes fd and ends (lines 105-109)
TaskSend(i) ==
    /\ i \in DOMAIN tasks
    /\ ~exited
    /\ tasks[i].pc = "send"
    /\ \E fault \in SendFaults :
        LET snd == SendToLogger(tasks[i].name, tasks[i].fd, fault, ctlPath)
        IN  /\ ctlSent' = ctlSent \o snd.sent
            /\ tasks' = [tasks EXCEPT ![i].pc = "done", ![i].calls = @ + 1,
                                      ![i].res = snd.err,
                                      ![i].fault = IF fault = "none" THEN @ ELSE fault]
            /\ sfaults' = IF fault = "none" THEN sfaults ELSE sfaults + 1
    /\ openFds' = openFds \ {tasks[i].fd}
    /\ UNCHANGED <<ctlPath, sinks, stats, logDir, logInodes, held, ret, ncalls>>
    /\ UNCHANGED <<fifos, exited, dumpPc, queryOut, stdout>>
    /\ UNCHANGED <<consumerVars, codecVars>>

OpenResultAlways(err, logFile) == logFile

\* the file remoteLog.Open returns once sendToLogger has returned err (nil on an error)
OpenResult(err, logFile) == IF err = "nil" THEN logFile ELSE NoFd

\* the failures the environment may produce inside one remoteLog.Open
OpenFaults == SendFaults \cup (IF MayFailSink THEN {"socketpair"} ELSE {})

\* remoteLog.Open(name) (lines 114-125): fds[0] is returned as logFile, fds[1] is handed
\* over; neither is closed here.  A failed Socketpair is log.Fatal
RemoteOpen ==
    /\ ~exited
    /\ ncalls < MaxCalls
    /\ \E k \in DOMAIN sinks, name \in ServiceNames, fault \in OpenFaults :
        LET logFile == Fd("socketpair", name, 2 * ncalls)
            other == Fd("socketpair", name, 2 * ncalls + 1)
            snd == SendToLogger(name, other, fault, ctlPath)
        IN  /\ sinks[k].kind = "remoteLog"
            /\ sfaults' = IF fault = "none" THEN sfaults ELSE sfaults + 1
            /\ IF fault = "socketpair"
               THEN /\ exited' = TRUE
                    /\ ret' = RemoteReturned("log.Fatal", k, name, "syscall.Socketpair",
                                             <<>>, NoFd, fault)
                    /\ UNCHANGED <<ctlSent, openFds, held>>
               ELSE /\ ctlSent' = ctlSent \o snd.sent
                    /\ openFds' = openFds \cup {logFile, other}
                    /\ held' = IF OpenResult(snd.err, logFile) = NoFd THEN held
                               ELSE Append(held, OpenResult(snd.err, logFile))
                    /\ ret' = RemoteReturned("remoteLog.Open", k, name, snd.err, <<>>,
                                             OpenResult(snd.err, logFile), fault)
                    /\ UNCHANGED exited
    /\ ncalls' = ncalls + 1
    /\ UNCHANGED <<ctlPath, sinks, stats, logDir, logInodes>>
    /\ UNCHANGED <<fifos, tasks, dumpPc, queryOut, stdout>>
    /\ UNCHANGED <<consumerVars, codecVars>>

DumpCommandFollow == logDumpFollow

\* the byte DumpAll sends
DumpCommand == logDumpCommand

\* remoteLog.DumpAll: net.DialUnix to the query socket; on an error it logs and
\* returns (lines 129-137)
DumpAllDial ==
    /\ ~exited
    /\ dumpPc = "idle"
    /\ ncalls < MaxCalls
    /\ ncalls' = ncalls + 1
    /\ \E k \in DOMAIN sinks : sinks[k].kind = "remoteLog"
    /\ \/ /\ dumpPc' = "write"
          /\ UNCHANGED sfaults
       \/ /\ MayFailSink
          /\ dumpPc' = "returned"
          /\ sfaults' = sfaults + 1
    /\ UNCHANGED <<ctlPath, sinks, stats, logDir, logInodes, held, ret>>
    /\ UNCHANGED <<fifos, tasks, ctlSent, openFds, exited, queryOut, stdout>>
    /\ UNCHANGED <<consumerVars, codecVars>>

\* conn.Write([]byte{logDumpCommand}); on an error or a short write it logs and
\* returns (lines 139-143)
DumpAllWrite ==
    /\ ~exited
    /\ dumpPc = "write"
    /\ \/ /\ dumpPc' = "copy"
          /\ queryOut' = Append(queryOut, DumpCommand)
          /\ UNCHANGED sfaults
       \/ /\ MayFailSink
          /\ dumpPc' = "returned"
          /\ sfaults' = sfaults + 1
          /\ UNCHANGED queryOut
    /\ UNCHANGED <<ctlPath, sinks, stats, logDir, logInodes, held, ret, ncalls>>
    /\ UNCHANGED <<fifos, tasks, ctlSent, openFds, exited, stdout>>
    /\ UNCHANGED <<consumerVars, codecVars>>

\* WriteTo(os.Stdout) copies a byte of the response (line 145)
DumpAllCopy ==
    /\ ~exited
    /\ dumpPc = "copy"
    /\ Len(stdout) < MaxOutput
    /\ stdout' = Append(stdout, "l")
    /\ UNCHANGED <<ctlPath, sinks, stats, logDir, logInodes, held, ret, ncalls>>
    /\ UNCHANGED <<fifos, tasks, ctlSent, openFds, exited, sfaults, dumpPc, queryOut>>
    /\ UNCHANGED <<consumerVars, codecVars>>

\* WriteTo returns: the daemon has closed the connection, or the read has failed and
\* the error is logged (lines 145-148)
DumpAllEnd ==
    /\ ~exited
    /\ dumpPc = "copy"
    /\ dumpPc' = "returned"
    /\ \/ UNCHANGED sfaults
       \/ /\ MayFailSink
          /\ sfaults' = sfaults + 1
    /\ UNCHANGED <<ctlPath, sinks, stats, logDir, logInodes, held, ret, ncalls>>
    /\ UNCHANGED <<fifos, tasks, ctlSent, openFds, exited, queryOut, stdout>>
    /\ UNCHANGED <<consumerVars, codecVars>>

InitSink ==
    /\ ConsumerIdle
    /\ CodecIdle
    /\ ctlPath \in {"present", "absent"}
    /\ sinks = <<>>
    /\ stats = <<>>
    /\ logDir = <<>>
    /\ logInodes = <<>>
    /\ held = <<>>
    /\ ret = NoCall
    /\ ncalls = 0
    /\ RemoteIdle

NextSink ==
    \/ CtlChanges
    \/ GetLog
    \/ FileLogPath
    \/ FileLogOpenCall
    \/ ServiceOutput

SpecSink == InitSink /\ [][NextSink]_vars

\* a process that GetLog has given the remoteLog, the control socket being there
InitRemote ==
    /\ ConsumerIdle
    /\ CodecIdle
    /\ ctlPath = "present"
    /\ sinks = <<GetLogOf(VarLog, "nil")>>
    /\ stats = <<[path |-> "present", err |-> "nil"]>>
    /\ logDir = <<>>
    /\ logInodes = <<>>
    /\ held = <<>>
    /\ ret = NoCall
    /\ ncalls = 0
    /\ RemoteIdle

NextRemote ==
    \/ CtlChanges
    \/ RemotePath
    \/ WriterOpens
    \/ \E i \in DOMAIN tasks : TaskOpened(i)
    \/ \E i \in DOMAIN tasks : TaskOpenFails(i)
    \/ \E i \in DOMAIN tasks : TaskSend(i)
    \/ RemoteOpen
    \/ DumpAllDial
    \/ DumpAllWrite
    \/ DumpAllCopy
    \/ DumpAllEnd

SpecRemote == InitRemote /\ [][NextRemote]_vars

\* the calls of Path with the goroutines they start
NextPath ==
    \/ CtlChanges
    \/ RemotePath
    \/ WriterOpens
    \/ \E i \in DOMAIN tasks : TaskOpened(i)
    \/ \E i \in DOMAIN tasks : TaskOpenFails(i)
    \/ \E i \in DOMAIN tasks : TaskSend(i)

\* the goroutines are scheduled: an open that can return does, and a goroutine past
\* its open runs to its end
SpecRemoteFair ==
    /\ InitRemote
    /\ [][NextPath]_vars
    /\ \A i \in 1..MaxCalls : WF_vars(TaskOpened(i)) /\ WF_vars(TaskSend(i))

-----------------------------------------------------------------------------
(* The consumer loop: what each kind of line and each failure does.         *)

\* the step has read one more line from the socket
JustRead == Len(received') = Len(received) + 1

\* the line the step has read
NewLine == Lines[received'[Len(received')]]

\* the line is well formed and its service name does not begin with "logwrite"
Accepted(i) == WellFormed(Lines[i]) /\ ~HasPrefix(Field1(Lines[i]), logwrite)

\* no LogFile, file or directory entry changes, and nothing is appended or rotated
FilesUnchanged == UNCHANGED <<logs, dir, inodes, rotations, rotFailed, appended, written>>

\* C11: a step that reads a well-formed line whose service name begins with
\* "logwrite" changes no file, no directory entry and no LogFile, starts no append and
\* no rotation, and leaves main at the read of the next line.
C11_OwnSkipped ==
    [][(JustRead /\ WellFormed(NewLine) /\ HasPrefix(Field1(NewLine), logwrite))
         => (FilesUnchanged /\ pc' = "read" /\ UNCHANGED <<cur, faults>>)]_vars

\* a line of service logwrite has been read while another service has a LogFile
C11_Witness ==
    /\ pc = "read"
    /\ Len(received) >= 2
    /\ WellFormed(Lines[received[Len(received)]])
    /\ HasPrefix(Field1(Lines[received[Len(received)]]), logwrite)
    /\ DOMAIN logs # {}

\* C12: a step that reads a line that does not decode changes no file and no LogFile
\* and leaves main at the read of the next line (it is not fatal); and whenever main is
\* back at the read or has ended on EOF, every accepted line received so far, the ones
\* after an undecodable line included, has been appended, in the order received.
C12_MalformedSkipped ==
    /\ [](LineDone => written = SelectSeq(received, Accepted))
    /\ [][(JustRead /\ ~WellFormed(NewLine))
            => (FilesUnchanged /\ pc' = "read" /\ UNCHANGED <<cur, faults>>)]_vars

\* an undecodable line came first and the accepted line after it has been appended
C12_Witness ==
    /\ LineDone
    /\ Len(received) >= 2
    /\ ~WellFormed(Lines[received[1]])
    /\ Accepted(received[2])
    /\ Len(written) >= 1
    /\ written[1] = received[2]
    /\ \E n \in DOMAIN logs : logs[n].BytesWritten > 0 \/ rotations[n] > 0

\* C13: EOF on the read ends main normally, any other read error ends it as fatal, no
\* step is taken once main has ended, main never goes back to connecting and the command
\* byte is never sent a second time.
C13_ReadEnds ==
    [][/\ (pc = "read" /\ last'.op = "eof") => pc' = "done"
       /\ (pc = "read" /\ last'.op = "read" /\ last'.err) => pc' = "fatal"
       /\ pc \notin {"done", "fatal"}
       /\ pc' # "connect"
       /\ Len(sockOut') <= 1]_vars

\* the read failed with an error other than EOF after a line had been received
C13_Witness ==
    /\ pc = "fatal"
    /\ last.op = "read"
    /\ last.err
    /\ received # <<>>

\* the service names of the accepted lines received so far
NamesAccepted ==
    {Field1(Lines[received[k]]) : k \in {j \in 1..Len(received) : Accepted(received[j])}}

\* C14: the map holds one LogFile per service name of an accepted line and no other
\* (while the process has not died); no step removes an entry; a line whose name already
\* has a LogFile creates or truncates nothing and is handed to that LogFile; an append
\* changes only the LogFile of the message's name and only the file behind its handle.
C14_OnePerName ==
    /\ [](Alive => /\ DOMAIN logs = NamesAccepted
                   /\ \A n \in DOMAIN logs : logs[n].Name = n)
    /\ [][/\ DOMAIN logs \subseteq DOMAIN logs'
          /\ (JustRead /\ Accepted(received'[Len(received')])
                /\ Field1(NewLine) \in DOMAIN logs)
               => /\ UNCHANGED <<logs, dir, inodes>>
                  /\ pc' = "write"
                  /\ cur'.Name = Field1(NewLine)
          /\ (JustRead /\ Accepted(received'[Len(received')])
                /\ Field1(NewLine) \notin DOMAIN logs /\ pc' # "fatal")
               => /\ DOMAIN logs' = DOMAIN logs \cup {Field1(NewLine)}
                  /\ \A n \in DOMAIN logs : logs'[n] = logs[n]
          /\ pc = "write"
               => /\ \A n \in DOMAIN logs : n # cur.Name => logs'[n] = logs[n]
                  /\ logs'[cur.Name].File.ino = logs[cur.Name].File.ino
                  /\ \A i \in DOMAIN inodes :
                        i # logs[cur.Name].File.ino => inodes'[i] = inodes[i]
                  /\ UNCHANGED dir]_vars

\* two messages of one service have been appended and the map holds one LogFile
C14_Witness ==
    /\ Len(written) >= 2
    /\ Field1(Lines[written[1]]) = Field1(Lines[written[2]])
    /\ Cardinality(DOMAIN logs) = 1

\* C15: a failed connect, a failed write of the command byte, a failed creation of a
\* log file and a failed append (an append to a closed file included) each take main
\* to the fatal exit in that very step, and no step is taken after the fatal exit.
C15_FatalErrors ==
    [][/\ (last'.op \in {"connect", "command", "create", "write"} /\ last'.err)
            => pc' = "fatal"
       /\ (pc = "write" /\ logs[cur.Name].File.closed) => pc' = "fatal"
       /\ pc # "fatal"]_vars

\* an append has failed and main has died with the line unprocessed
C15_Witness ==
    /\ pc = "fatal"
    /\ last.op = "write"
    /\ last.err
    /\ Len(written) < Len(SelectSeq(received, Accepted))

\* C16: once a Rotate started by the consumer loop has failed, the process has halted.
C16_RotateErrorHalts == rotFailed # {} => pc = "fatal"

-----------------------------------------------------------------------------
(* What the files of one service hold after appends and rotations.          *)

\* the lines of service s among the lines w, in order
RECURSIVE LinesOf(_, _)
LinesOf(w, s) ==
    IF w = <<>> THEN <<>>
    ELSE (IF Field1(Lines[Head(w)]) = s THEN <<Head(w)>> ELSE <<>>) \o LinesOf(Tail(w), s)

\* the appended lines w cut into generations: a generation ends with the message that
\* takes its size over maxLogSize; g is the generation being filled and n its size
RECURSIVE Generations(_, _, _)
Generations(w, g, n) ==
    IF w = <<>> THEN <<g>>
    ELSE LET g2 == Append(g, Head(w))
             n2 == n + Len(Written(Head(w)))
         IN  IF n2 > maxLogSize
             THEN <<g2>> \o Generations(Tail(w), <<>>, 0)
             ELSE Generations(Tail(w), g2, n2)

\* the text of the messages of the lines w, in order
RECURSIVE TextOf(_)
TextOf(w) == IF w = <<>> THEN <<>> ELSE Written(Head(w)) \o TextOf(Tail(w))

\* the summed size of the lines Write encodes for the messages of the lines w
RECURSIVE EncodedSize(_)
EncodedSize(w) == IF w = <<>> THEN 0 ELSE Len(Written(Head(w))) + EncodedSize(Tail(w))

\* the generations from[lo], ..., from[hi] joined
RECURSIVE Joined(_, _, _)
Joined(from, lo, hi) == IF lo > hi THEN <<>> ELSE from[lo] \o Joined(from, lo + 1, hi)

\* the sizes of the siblings s.0, ..., s.i summed
RECURSIVE SiblingSize(_, _)
SiblingSize(s, i) ==
    IF i < 0 THEN 0 ELSE Len(inodes[dir[Sibling(s, i)]]) + SiblingSize(s, i - 1)

\* C17: for a service whose appends and rotations have all succeeded and whose file
\* names clash with no other service, with g the generations of its appended messages
\* and k = Len(g) - 1 rotations done: the files are the base and the siblings s.0 to
\* s.(min(k, maxLogFiles) - 1); the base holds the messages of the newest generation
\* and s.j those of the generation j + 1 rotations back, each message once and in
\* append order, the generations older than that being gone; and the sizes of these
\* files sum to the summed sizes of the encoded lines of the messages they hold.
C17_Conservation ==
    \A s \in DOMAIN logs :
        (LineDone /\ Alone(s) /\ s \notin rotFailed)
        => LET g == Generations(LinesOf(written, s), <<>>, 0)
               k == Len(g) - 1
               kept == Min(k, maxLogFiles)
           IN  /\ rotations[s] = k
               /\ FilesOf(s) = {s} \cup {Sibling(s, j) : j \in 0..(kept - 1)}
               /\ inodes[dir[s]] = TextOf(g[k + 1])
               /\ \A j \in 0..(kept - 1) : inodes[dir[Sibling(s, j)]] = TextOf(g[k - j])
               /\ Len(inodes[dir[s]]) + SiblingSize(s, kept - 1)
                    = EncodedSize(Joined(g, k + 1 - kept, k + 1))

\* three appends have each been followed by a rotation and one generation is gone
C17_Witness ==
    /\ LineDone
    /\ maxLogFiles >= 1
    /\ \E s \in DOMAIN logs :
        /\ Alone(s)
        /\ s \notin rotFailed
        /\ rotations[s] > maxLogFiles
        /\ Len(LinesOf(written, s)) = 3
        /\ Sibling(s, 0) \in DOMAIN dir

-----------------------------------------------------------------------------
(* The sinks of init: which one GetLog returns and what fileLog.Path gives.  *)

\* C18 as stated: a sink GetLog returned is the remote one exactly when the control
\* socket path existed at the call.
C18_Original ==
    \A i \in DOMAIN sinks : sinks[i].kind = "remoteLog" <=> stats[i].path = "present"

\* C18: GetLog returns the fileLog on logDir exactly when os.Stat of the control socket
\* path reports that it does not exist, and the remoteLog on /var/run otherwise: always
\* when the path exists, and also when os.Stat fails with another error, whether the
\* path exists or not.  A fileLog is returned only when the path is absent.
C18_StatDecides ==
    \A i \in DOMAIN sinks :
        /\ stats[i].err = "ENOENT" <=> sinks[i] = [kind |-> "fileLog", dir |-> VarLog]
        /\ stats[i].err # "ENOENT" <=> sinks[i] = [kind |-> "remoteLog", dir |-> VarRun]
        /\ stats[i].path = "present" => sinks[i].kind = "remoteLog"
        /\ sinks[i].kind = "fileLog" => stats[i].path = "absent"

\* with the path absent one call returned the fileLog and another, whose os.Stat failed
\* with another error, the remoteLog
C18_Witness ==
    \E i, j \in DOMAIN sinks :
        /\ stats[i].path = "absent" /\ stats[i].err = "ENOENT" /\ sinks[i].kind = "fileLog"
        /\ stats[j].path = "absent" /\ stats[j].err = "EACCES"
        /\ sinks[j].kind = "remoteLog"

C20_PathReturns ==
    [][(ncalls' = ncalls + 1 /\ ret'.op = "Path")
         => /\ held' = held
            /\ IF ret'.err
               THEN /\ ret'.path = DevNull
                    /\ UNCHANGED <<logDir, logInodes>>
               ELSE /\ ret'.path = VarLog \o <<"/">> \o ret'.name \o <<".", "l", "o", "g">>
                    /\ ret'.path \in DOMAIN logDir'
                    /\ sinks[ret'.sink].dir = VarLog]_vars

\* Path has returned /dev/null for one service after it had created the file of another
C20_Witness ==
    /\ ret.op = "Path"
    /\ ret.err
    /\ ret.path = DevNull
    /\ logDir # <<>>
    /\ Join(VarLog, DotLog(ret.name)) \notin DOMAIN logDir

-----------------------------------------------------------------------------
(* The remoteLog: Path and its goroutines, Open, DumpAll and sendToLogger.  *)

\* the step is a call of remoteLog.Path that has returned
PathCalled == ncalls' = ncalls + 1 /\ dumpPc' = dumpPc /\ ret'.op = "remoteLog.Path"

\* the step is a call of remoteLog.Open that has returned
OpenCalled == ncalls' = ncalls + 1 /\ dumpPc' = dumpPc /\ ret'.op = "remoteLog.Open"

\* the datagrams delivered that carry the FIFO descriptor of goroutine i
SentBy(i) ==
    {n \in DOMAIN ctlSent :
        \E k \in DOMAIN ctlSent[n].oob :
            ctlSent[n].oob[k].obj = "fifo" /\ ctlSent[n].oob[k].id = i}

\* C21: a call of remoteLog.Path whose Mkfifo failed returns /dev/null, creates no FIFO
\* and starts no goroutine; any other call returns fifoDir/name.log with the FIFO
\* created and one goroutine started, and it returns while that goroutine has not
\* opened the FIFO, no writer has opened it and nothing has been sent to the daemon.
C21_PathReturns ==
    [][PathCalled
         => IF ret'.err
            THEN /\ ret'.path = DevNull
                 /\ UNCHANGED <<fifos, tasks, ctlSent, openFds>>
            ELSE /\ ret'.path = VarRun \o <<"/">> \o ret'.name \o <<".", "l", "o", "g">>
                 /\ ret'.path \notin DOMAIN fifos
                 /\ ret'.path \in DOMAIN fifos'
                 /\ ~fifos'[ret'.path]
                 /\ Len(tasks') = Len(tasks) + 1
                 /\ \A i \in DOMAIN tasks : tasks'[i] = tasks[i]
                 /\ tasks'[Len(tasks')].name = ret'.name
                 /\ tasks'[Len(tasks')].pc = "open"
                 /\ tasks'[Len(tasks')].opens = 0
                 /\ tasks'[Len(tasks')].calls = 0
                 /\ UNCHANGED <<ctlSent, openFds>>]_vars

\* Path has returned the FIFO path and its goroutine still waits for a writer
C21_Witness ==
    /\ ret.op = "remoteLog.Path"
    /\ ~ret.err
    /\ ret.path \in DOMAIN fifos
    /\ ~fifos[ret.path]
    /\ \E i \in DOMAIN tasks : tasks[i].path = ret.path /\ tasks[i].pc = "open"

\* C22 as stated: one goroutine per service name whose FIFO was created, and each
\* goroutine that has ended has done one open and has sent exactly one datagram, with
\* the name as payload and one descriptor.
C22_Original ==
    /\ \A i, j \in DOMAIN tasks : tasks[i].name = tasks[j].name => i = j
    /\ {tasks[i].path : i \in DOMAIN tasks} = DOMAIN fifos
    /\ \A i \in DOMAIN tasks :
        tasks[i].pc = "done"
        => /\ tasks[i].opens = 1
           /\ Cardinality(SentBy(i)) = 1
           /\ \A n \in SentBy(i) :
                ctlSent[n].payload = tasks[i].name /\ Len(ctlSent[n].oob) = 1

\* C22: there is exactly one goroutine per service name whose FIFO was created, however
\* often Path was called for the name; each goroutine opens the FIFO at most once and
\* calls sendToLogger at most once, after its open; it sends at most one datagram,
\* whose payload is the service name and which carries one descriptor; a goroutine that
\* has ended has made its one open and its one call, and has sent exactly one datagram
\* when that call returned nil and none otherwise.
C22_OnePerName ==
    /\ \A i, j \in DOMAIN tasks : tasks[i].name = tasks[j].name => i = j
    /\ {tasks[i].path : i \in DOMAIN tasks} = DOMAIN fifos
    /\ \A i \in DOMAIN tasks :
        /\ tasks[i].opens <= 1
        /\ tasks[i].calls <= 1
        /\ tasks[i].calls = 1 => tasks[i].opens = 1
        /\ Cardinality(SentBy(i)) <= 1
        /\ SentBy(i) # {} => tasks[i].calls = 1
        /\ \A n \in SentBy(i) :
                ctlSent[n].payload = tasks[i].name /\ Len(ctlSent[n].oob) = 1
        /\ tasks[i].pc = "done"
            => /\ tasks[i].opens = 1
               /\ tasks[i].calls = 1
               /\ Cardinality(SentBy(i)) = (IF tasks[i].res = "nil" THEN 1 ELSE 0)

\* Path was called again for a name whose goroutine has sent its datagram and ended
C22_Witness ==
    /\ ret.op = "remoteLog.Path"
    /\ ret.err
    /\ ret.fault = "none"
    /\ \E i \in DOMAIN tasks :
        /\ tasks[i].name = ret.name
        /\ tasks[i].pc = "done"
        /\ SentBy(i) # {}

\* C23 as stated, its part that a finite run refutes: a goroutine that has ended and
\* whose FIFO a writer has opened has sent its datagram.
C23_Original ==
    \A i \in DOMAIN tasks :
        (tasks[i].pc = "done" /\ fifos[tasks[i].path]) => SentBy(i) # {}

\* C23: a datagram of a goroutine is delivered only after a writer has opened the
\* goroutine's FIFO; a goroutine waiting in its open while no writer has opened the
\* FIFO leaves the open only when the open fails, and then nothing is delivered; and
\* once a writer has opened the FIFO the goroutine ends (unless the process exits
\* first), having sent its datagram if sendToLogger returned nil.
C23_AfterWriter ==
    /\ [](\A i \in DOMAIN tasks :
            /\ SentBy(i) # {} => fifos[tasks[i].path]
            /\ (tasks[i].pc = "done" /\ tasks[i].res = "nil") => SentBy(i) # {})
    /\ [][\A i \in DOMAIN tasks :
            (tasks[i].pc = "open" /\ ~fifos[tasks[i].path] /\ tasks'[i] # tasks[i])
            => /\ tasks'[i].pc = "send"
               /\ tasks'[i].fault = "open"
               /\ tasks'[i].fd = NoFd]_vars
    /\ \A i \in 1..MaxCalls :
        [](i \in DOMAIN tasks /\ fifos[tasks[i].path]
            => <>(exited \/ (i \in DOMAIN tasks /\ tasks[i].pc = "done")))

\* a writer opened the FIFO, the goroutine sent its datagram and ended
C23_Witness ==
    \E i \in DOMAIN tasks :
        /\ tasks[i].pc = "done"
        /\ fifos[tasks[i].path]
        /\ tasks[i].res = "nil"
        /\ SentBy(i) # {}

\* C24: a call of remoteLog.Open that returns nil as error returns one end of a new
\* socket pair and has delivered one datagram with the service name and the other end
\* of that pair; a call that returns an error returns no file and has delivered
\* nothing.  The call waits for nothing: no FIFO, writer or goroutine changes in it.
C24_OpenHandsOver ==
    [][OpenCalled
         => /\ UNCHANGED <<fifos, tasks>>
            /\ IF ret'.error = "nil"
               THEN /\ ret'.handle.obj = "socketpair"
                    /\ ret'.handle \notin openFds
                    /\ held' = Append(held, ret'.handle)
                    /\ Len(ctlSent') = Len(ctlSent) + 1
                    /\ SubSeq(ctlSent', 1, Len(ctlSent)) = ctlSent
                    /\ LET d == ctlSent'[Len(ctlSent')]
                       IN  /\ d.payload = ret'.name
                           /\ Len(d.oob) = 1
                           /\ d.oob[1].obj = "socketpair"
                           /\ d.oob[1] # ret'.handle
                           /\ d.oob[1] \notin openFds
                           /\ openFds' = openFds \cup {ret'.handle, d.oob[1]}
               ELSE /\ ret'.handle = NoFd
                    /\ UNCHANGED <<held, ctlSent>>]_vars

\* Open has returned a file after the other end went to the daemon
C24_Witness ==
    /\ ret.op = "remoteLog.Open"
    /\ ret.error = "nil"
    /\ held # <<>>
    /\ held[Len(held)] = ret.handle
    /\ \E n \in DOMAIN ctlSent : ctlSent[n].payload = ret.name

\* C25: DumpAll writes at most one byte to the query socket, the dump-only command of
\* the consumer protocol (not follow-only, not dump-then-follow); it copies to standard
\* output only after that byte, and stops copying only when the read ends; when it
\* returns, after a failed connect or write as after the copy, the process has not
\* been terminated.
C25_DumpAll ==
    /\ [](/\ Len(queryOut) <= 1
          /\ \A n \in DOMAIN queryOut :
                queryOut[n] = logDump /\ queryOut[n] # logFollow
                    /\ queryOut[n] # logDumpFollow
          /\ (dumpPc = "copy" \/ stdout # <<>>) => Len(queryOut) = 1
          /\ dumpPc \in {"idle", "write"} => queryOut = <<>> /\ stdout = <<>>)
    /\ [][/\ (dumpPc' = "returned" /\ dumpPc # "returned") => ~exited'
          /\ (dumpPc = "copy" /\ dumpPc' # "copy") => dumpPc' = "returned"
          /\ dumpPc = "returned" => dumpPc' = "returned" /\ UNCHANGED <<queryOut, stdout>>
          /\ Len(queryOut') > Len(queryOut) => dumpPc = "write" /\ dumpPc' = "copy"]_vars

\* DumpAll has sent the command, copied the response and returned
C25_Witness ==
    /\ dumpPc = "returned"
    /\ queryOut = <<logDump>>
    /\ stdout # <<>>
    /\ ~exited

\* C29 as stated: sendToLogger returns nil or errLoggingNotEnabled, nothing else.
C29_Original ==
    /\ \A i \in DOMAIN tasks : tasks[i].res \in {"nil", errLoggingNotEnabled}
    /\ ret.op = "remoteLog.Open" => ret.error \in {"nil", errLoggingNotEnabled}

\* C29: sendToLogger returns nil exactly when the datagram was delivered; it returns
\* errLoggingNotEnabled when WriteMsgUnix fails (the environment's failure, nothing
\* bound to the control socket path, or a descriptor that is not open), and the error
\* of syscall.Socket or net.FileConn when creating its private socket fails; whatever
\* it returns, the goroutine or the Open that called it does not terminate the process.
C29_SendErrors ==
    /\ [](\A i \in DOMAIN tasks :
            tasks[i].pc = "done"
            => /\ tasks[i].res = "nil" <=> SentBy(i) # {}
               /\ tasks[i].fault \in {"send", "open"} => tasks[i].res = errLoggingNotEnabled
               /\ tasks[i].fault = "socket" => tasks[i].res = "syscall.Socket"
               /\ tasks[i].fault = "fileconn" => tasks[i].res = "net.FileConn")
    /\ [][/\ OpenCalled
            => /\ ret'.error = "nil" <=> Len(ctlSent') = Len(ctlSent) + 1
               /\ ret'.error # "nil" => ctlSent' = ctlSent
               /\ (ret'.fault = "send" \/ (ret'.fault = "none" /\ ctlPath = "absent"))
                    => ret'.error = errLoggingNotEnabled
               /\ ret'.fault = "socket" => ret'.error = "syscall.Socket"
               /\ ret'.fault = "fileconn" => ret'.error = "net.FileConn"
               /\ ~exited'
          /\ \A i \in DOMAIN tasks :
                (tasks[i].pc = "send" /\ tasks'[i].pc = "done")
                => /\ ~exited'
                   /\ (ctlPath = "absent" /\ tasks[i].fault = "none"
                         /\ tasks'[i].fault = "none")
                        => tasks'[i].res = errLoggingNotEnabled]_vars

\* a goroutine's sendToLogger failed in WriteMsgUnix and an Open's in syscall.Socket
C29_Witness ==
    /\ \E i \in DOMAIN tasks :
        tasks[i].pc = "done" /\ tasks[i].res = errLoggingNotEnabled
    /\ ret.op = "remoteLog.Open"
    /\ ret.error = "syscall.Socket"

-----------------------------------------------------------------------------
(* Rotate in detail, the command byte of the consumer, and the files of      *)
(* other services.                                                          *)

\* the step is a Rotate started by the size check
Rotating == pc = "check" /\ last'.op = "rotate"

\* the file Rotate renames to path.i: the base for index 0, path.(i-1) otherwise
SourceOf(path, i) == IF i = 0 THEN path ELSE Sibling(path, i - 1)

\* the names of the chain of path for maxFiles: the base and path.0 .. path.(maxFiles-1)
ChainNames(path, maxFiles) == {path} \cup {Sibling(path, i) : i \in 0..(maxFiles - 1)}

C27_RenameErrors ==
    [][Rotating
         => LET path == PathOf(cur.Name)
                f == last'.fault
            IN  /\ (f = NoFault /\ ~last'.wasClosed)
                    => /\ ~last'.err
                       /\ \A i \in 0..(maxLogFiles - 1) :
                            SourceOf(path, i) \in DOMAIN dir
                            => /\ Sibling(path, i) \in DOMAIN dir'
                               /\ dir'[Sibling(path, i)] = dir[SourceOf(path, i)]
                       /\ path \in DOMAIN dir'
                       /\ inodes'[dir'[path]] = <<>>
                       /\ logs'[cur.Name].BytesWritten = 0
                /\ f.kind = "rename"
                    => /\ last'.err
                       /\ logs'[cur.Name].BytesWritten = logs[cur.Name].BytesWritten
                       /\ inodes' = inodes
                       /\ \A q \in {path} \cup {Sibling(path, j) : j \in 0..(f.at - 1)} :
                            /\ q \in DOMAIN dir <=> q \in DOMAIN dir'
                            /\ q \in DOMAIN dir => dir'[q] = dir[q]
                       /\ Sibling(path, f.at) \in DOMAIN dir'
                            => /\ Sibling(path, f.at) \in DOMAIN dir
                               /\ dir'[Sibling(path, f.at)] = dir[Sibling(path, f.at)]]_vars

\* the rename of the base to path.0 failed after path.0 had been moved to path.1
C27_Witness ==
    /\ last.op = "rotate"
    /\ last.err
    /\ last.fault = Fault("rename", 0)
    /\ ~last.wasClosed
    /\ maxLogFiles = 2
    /\ Sibling(PathOf(last.name), 1) \in DOMAIN dir
    /\ Sibling(PathOf(last.name), 0) \notin DOMAIN dir
    /\ PathOf(last.name) \in DOMAIN dir
    /\ logs[last.name].BytesWritten > maxLogSize

\* C28: main has written nothing to the socket before the command step and exactly the
\* one byte logDumpFollow (neither logDump nor logFollow) from then on: it is there
\* before any line is read and nothing is ever added to it.
C28_OneCommand ==
    /\ Len(sockOut) <= 1
    /\ \A n \in DOMAIN sockOut :
        sockOut[n] = logDumpFollow /\ sockOut[n] # logDump /\ sockOut[n] # logFollow
    /\ pc \in {"connect", "cmd"} => sockOut = <<>>
    /\ pc \in {"read", "write", "check", "done"} => Len(sockOut) = 1
    /\ received # <<>> => Len(sockOut) = 1

\* main has read all its lines and ended, the one command byte sent
C28_Witness ==
    /\ pc = "done"
    /\ Len(received) = MaxLines
    /\ sockOut = <<logDumpFollow>>

\* C30: a step that processes a message of service A (its line is read, it is
\* appended, or the size check and rotation after it run) leaves the LogFile of every
\* other service B as it was, and the file named B existing or not as before and with
\* the same content.
C30_OtherServices ==
    [][\A b \in DOMAIN logs :
        (\/ pc \in {"write", "check"} /\ cur.Name # b
         \/ /\ pc = "read"
            /\ JustRead
            /\ WellFormed(NewLine)
            /\ Field1(NewLine) # b)
        => /\ logs'[b] = logs[b]
           /\ PathOf(b) \in DOMAIN dir <=> PathOf(b) \in DOMAIN dir'
           /\ PathOf(b) \in DOMAIN dir
                => inodes'[dir'[PathOf(b)]] = inodes[dir[PathOf(b)]]]_vars

-----------------------------------------------------------------------------
(* The size bound of the log files.                                          *)

\* the encoded size of the largest message the daemon may send
LargestMessage ==
    LET sizes == {Len(Written(i)) : i \in {j \in 1..Len(Lines) : WellFormed(Lines[j])}}
    IN  CHOOSE n \in sizes : \A k \in sizes : k <= n

\* C31: while no Rotate has failed, every LogFile has BytesWritten <= maxLogSize when
\* main is about to read the next line, and no file of the log directory is ever
\* larger than maxLogSize plus the encoded size of one message.
C31_SizeBound ==
    rotFailed = {}
    => /\ pc = "read" => \A s \in DOMAIN logs : logs[s].BytesWritten <= maxLogSize
       /\ \A q \in DOMAIN dir : Len(inodes[dir[q]]) <= maxLogSize + LargestMessage

\* main is about to read a line after a rotation that moved away a file larger than
\* maxLogSize, the counter of the service back at 0
C31_Witness ==
    /\ pc = "read"
    /\ rotFailed = {}
    /\ \E s \in DOMAIN logs :
        /\ rotations[s] >= 1
        /\ logs[s].BytesWritten = 0
        /\ Sibling(PathOf(s), 0) \in DOMAIN dir
        /\ Len(inodes[dir[Sibling(PathOf(s), 0)]]) > maxLogSize

-----------------------------------------------------------------------------
(* The descriptors the remoteLog hands over and keeps.                       *)

\* the syscall.Open of goroutine i has failed
OpenFailed(i) == tasks[i].pc \in {"send", "done"} /\ tasks[i].fd = NoFd

C33_PathKeepsContent ==
    [][(ncalls' = ncalls + 1 /\ ret'.op = "Path")
         => LET path == Join(sinks[ret'.sink].dir, DotLog(ret'.name))
            IN  path \in DOMAIN logDir
                => /\ path \in DOMAIN logDir'
                   /\ logInodes'[logDir'[path]] = logInodes[logDir[path]]]_vars

-----------------------------------------------------------------------------
(* The lines of the stream and its end.                                      *)

\* the lines among w that main appends to a log file, in order
RECURSIVE AcceptedOf(_)
AcceptedOf(w) ==
    IF w = <<>> THEN <<>>
    ELSE (IF Accepted(Head(w)) THEN <<Head(w)>> ELSE <<>>) \o AcceptedOf(Tail(w))

\* v is the beginning of w
IsPrefix(v, w) == Len(v) <= Len(w) /\ v = SubSeq(w, 1, Len(v))

\* C34: the messages appended are at every moment the accepted lines received, in the
\* order received, up to the line being processed; when ReadString returns io.EOF all
\* of them have been appended, main ends, and the data returned with io.EOF (what came
\* after the last newline) is dropped: no file, LogFile or counter changes.
C34_LinesInOrder ==
    [][/\ IsPrefix(written', AcceptedOf(received'))
       /\ pc' \in {"read", "done"} => written' = AcceptedOf(received')
       /\ (pc = "read" /\ last'.op = "eof")
            => /\ pc' = "done"
               /\ written = AcceptedOf(received)
               /\ UNCHANGED <<received, written, logs, dir, inodes>>]_vars

\* the stream ended with a line lacking its newline after three lines, the second
\* of them skipped, and main has ended with the two others appended in order
C34_Witness ==
    /\ pc = "done"
    /\ last.op = "eof"
    /\ last.tail # <<>>
    /\ Len(received) = 3
    /\ ~Accepted(received[2])
    /\ written = <<received[1], received[3]>>
    /\ received[1] # received[3]

-----------------------------------------------------------------------------
(* The descriptors left open after a handoff.                                *)

\* the end of the socket pair that the call of remoteLog.Open numbered id handed over
DaemonEnd(fd) == fd.obj = "socketpair" /\ fd.id % 2 = 1

\* C35: a goroutine of Path that has ended no longer holds the descriptor of its FIFO,
\* and once remoteLog.Open has returned the process no longer holds the end of the
\* socket pair it handed to the daemon.
C35_HandedOffClosed ==
    /\ \A i \in DOMAIN tasks : tasks[i].pc = "done" => tasks[i].fd \notin openFds
    /\ \A fd \in openFds : ~DaemonEnd(fd)

=============================================================================
